---------------------------- MODULE Spec2Model ----------------------------
(***************************************************************************)
(* iosock: a child process whose stdin/stdout/stderr are bridged to a Unix *)
(* domain socket.  This module models                                      *)
(*   - FlipBuffer (src/src/main.rs 23-114), the double buffer;             *)
(*   - socket_stream_bridge (main.rs 146-208), the epoll loop;             *)
(*   - main (main.rs 210-263), the lifecycle thread;                       *)
(*   - the signal handler (src/src/signals.rs).                            *)
(***************************************************************************)
EXTENDS Integers, Sequences, FiniteSets, TLC

(***************************************************************************)
(* Bounds of the model.                                                    *)
(***************************************************************************)
\* the const generic N of the FlipBuffer the harness drives
N == 2

\* the N of the bridge's two buffers (BUFFER_BYTES = 32 * 1024 in the
\* program), scaled down
BUFFER_BYTES == 1

\* total number of bytes the FlipBuffer harness produces: more than 2N, so
\* that both pages fill and a blocked writer is seen
MaxWritten == 2 * N + 2

\* Default::default() of u8, the initial content of both pages
DefaultByte == 0

\* what a callback leaves in the part of the slice it does not report
Scribble == 0 - 1

VARIABLES
    fb,             \* the FlipBuffer under test (harness)
    fbWritten,      \* every byte reported produced through with_write, in order
    fbRead,         \* every byte reported consumed through with_read, in order
    fbLast,         \* what the last with_read / with_write call did
    fbReaderCalled, \* TRUE once with_read has been called
    fbPanicked      \* TRUE once a call has panicked

fbVars == <<fb, fbWritten, fbRead, fbLast, fbReaderCalled, fbPanicked>>

VARIABLES
    \* main, the lifecycle thread
    mpc,            \* where main is
    wait_result,    \* what child.wait() returned
    exit_status,    \* the status this process exited with, -1 while it runs
    sock_file,      \* the socket file exists
    notify_pipe,    \* bytes written to closer_write and not read
    \* signals.rs
    CHILD_PID,      \* static mut CHILD_PID
    handlers,       \* the three sigactions are installed
    signals,        \* number of termination signals this process received
    sigterm_log,    \* what kill(CHILD_PID, SIGTERM) hit, per handler run
    \* socket_stream_bridge, the worker thread
    bpc,            \* where the bridge is
    berr,           \* the io::Error it returned
    ready,          \* events_buf: the reported descriptors not yet processed
    epoll_set,      \* descriptors registered with pollster
    socket_client,  \* Option<UnixStream>: 0 is None
    child_stdin_buf,
    child_stdouterr_buf,
    stdout_sink,    \* bytes written to this process's stdout
    \* the child process and its three pipes
    child,          \* "none", "running", "exited" (zombie), "reaped"
    child_status,   \* how it died: by a signal or with an exit code
    child_termed,   \* a SIGTERM was delivered to the running child
    child_out,      \* number of bytes the child has produced
    child_got,      \* bytes the child has read from its stdin
    child_held,     \* echo child: bytes read and not yet written back
    stdin_pipe, stdout_pipe, stderr_pipe,
    \* the peers of the listening socket
    cli_end,        \* client's end: "none", "open", "closed"
    srv_end,        \* our end: "none", "backlog", "open", "closed"
    backlog,        \* connections waiting for accept, oldest first
    c2s,            \* bytes sent by the client and not read by us
    s2c,            \* bytes written by us and not read by the client
    client_sent,    \* number of bytes the client has sent
    client_got,     \* bytes the client has read
    rejected        \* peers that were accepted and dropped at once

lifeVars == <<mpc, wait_result, exit_status, sock_file>>
sigVars  == <<CHILD_PID, handlers, signals, sigterm_log>>
loopVars == <<bpc, berr, ready, epoll_set, socket_client,
              child_stdin_buf, child_stdouterr_buf>>
childVars == <<child, child_status, child_termed, child_out, child_got, child_held>>
pipeVars == <<stdin_pipe, stdout_pipe, stderr_pipe>>
peerVars == <<cli_end, srv_end, backlog, c2s, s2c, client_sent, client_got, rejected>>

progVars == <<lifeVars, notify_pipe, sigVars, loopVars, stdout_sink, childVars,
              pipeVars, peerVars>>

vars == <<fbVars, progVars>>

(***************************************************************************)
(* FlipBuffer                                                              *)
(***************************************************************************)
\* a page of n elements, as FlipBuffer::new fills it
Page(n) == [i \in 1..n |-> DefaultByte]

\* FlipBuffer::<T, n>::new
new(n) ==
    [read_page |-> Page(n), write_page |-> Page(n),
     read_cursor |-> 0, read_max |-> 0, write_cursor |-> 0]

\* the const generic N of a buffer: the length of its pages
Cap(b) == Len(b.write_page)

\* flip_buffers without the swap of the two pages
flip_buffers_no_swap(b) ==
    [read_page    |-> b.read_page,
     write_page   |-> b.write_page,
     read_cursor  |-> 0,
     read_max     |-> b.write_cursor,
     write_cursor |-> 0]

\* flip_buffers without the reset of read_cursor
flip_buffers_keep_cursor(b) ==
    [read_page    |-> b.write_page,
     write_page   |-> b.read_page,
     read_cursor  |-> b.read_cursor,
     read_max     |-> b.write_cursor,
     write_cursor |-> 0]

\* FlipBuffer::flip_buffers
flip_buffers(b) ==
    [read_page    |-> b.write_page,
     write_page   |-> b.read_page,
     read_cursor  |-> 0,
     read_max     |-> b.write_cursor,
     write_cursor |-> 0]

\* lines 70-72 with the test lost: with_read never flips
with_read_flips_never(b) == FALSE

\* the flip check of with_read without the test that the writer holds data
with_read_flips_when_drained(b) == b.read_cursor = b.read_max

\* with_read, the flip check
with_read_flips(b) == b.read_cursor = b.read_max /\ b.write_cursor > 0

with_read_flip(b) == IF with_read_flips(b) THEN flip_buffers(b) ELSE b

\* with_read, the slice handed to func: read_page[read_cursor..read_max]
with_read_slice(b) ==
    LET f == with_read_flip(b)
    IN  [i \in 1..(f.read_max - f.read_cursor) |-> f.read_page[f.read_cursor + i]]

\* with_read with lines 79-82 in the other order: the cursor is advanced
\* before the test
with_read_advance_first(b, res) ==
    LET f        == with_read_flip(b)
        readable == f.read_max - f.read_cursor
        g        == [f EXCEPT !.read_cursor = @ + res.n]
    IN  IF res.ok
        THEN IF res.n > readable
             THEN [buf |-> g, out |-> "panic", n |-> 0]
             ELSE [buf |-> g, out |-> "ok", n |-> res.n]
        ELSE [buf |-> f, out |-> "err", n |-> 0]

\* with_read, given what func returned: res.ok (Ok / Err), res.n (was_read)
with_read(b, res) ==
    LET f        == with_read_flip(b)
        readable == f.read_max - f.read_cursor
    IN  IF res.ok
        THEN IF res.n > readable
             THEN [buf |-> f, out |-> "panic", n |-> 0]
             ELSE [buf |-> [f EXCEPT !.read_cursor = @ + res.n],
                   out |-> "ok", n |-> res.n]
        ELSE [buf |-> f, out |-> "err", n |-> 0]

\* the flip check of with_write without the test that the reader has drained
with_write_flips_when_full(b) == b.write_cursor = Cap(b)

\* with_write, the flip check
with_write_flips(b) == b.write_cursor = Cap(b) /\ b.read_cursor = b.read_max

with_write_flip(b) == IF with_write_flips(b) THEN flip_buffers(b) ELSE b

\* with_write, the length of the slice handed to func: write_page[write_cursor..N]
with_write_room(b) == Cap(b) - with_write_flip(b).write_cursor

\* what func stored into the slice: res.data, from the slice's first element
Stored(page, at, data) ==
    [i \in 1..Len(page) |->
        IF i > at /\ i <= at + Len(data) THEN data[i - at] ELSE page[i]]

\* with_write, given what func did: res.data (stored into the slice),
\* res.ok (Ok / Err), res.n (was_written)
with_write(b, res) ==
    LET f        == with_write_flip(b)
        writable == Cap(b) - f.write_cursor
        g        == [f EXCEPT !.write_page = Stored(@, f.write_cursor, res.data)]
    IN  IF res.ok
        THEN IF res.n > writable
             THEN [buf |-> g, out |-> "panic", n |-> 0]
             ELSE [buf |-> [g EXCEPT !.write_cursor = @ + res.n],
                   out |-> "ok", n |-> res.n]
        ELSE [buf |-> g, out |-> "err", n |-> 0]

\* the bytes a buffer holds, oldest first
Unread(b) ==
    [i \in 1..(b.read_max - b.read_cursor) |-> b.read_page[b.read_cursor + i]]
    \o [i \in 1..b.write_cursor |-> b.write_page[i]]

(***************************************************************************)
(* Harness: one FlipBuffer driven by arbitrary callbacks.                  *)
(***************************************************************************)
NoCall == [op |-> "none", offered |-> 0, reported |-> 0, flipped |-> FALSE,
           out |-> "ok", n |-> 0, before |-> new(N)]

InitFB ==
    /\ fb = new(N)
    /\ fbWritten = <<>>
    /\ fbRead = <<>>
    /\ fbLast = NoCall
    /\ fbReaderCalled = FALSE
    /\ fbPanicked = FALSE

\* the n fresh bytes the next producer hands over, followed by its scribble
Fresh(n, d) ==
    [i \in 1..d |-> IF i <= n THEN Len(fbWritten) + i ELSE Scribble]

\* a with_read call whose callback consumes k bytes of the slice, reports
\* one byte more than it was offered (k = offered + 1), or fails
FBRead ==
    /\ ~fbPanicked
    /\ LET slice == with_read_slice(fb)
       IN  \E ok \in BOOLEAN, k \in 0..(Len(slice) + 1) :
              /\ ~ok => k = 0
              /\ LET r == with_read(fb, [ok |-> ok, n |-> k])
                 IN  /\ fb' = r.buf
                     /\ fbRead' = fbRead \o SubSeq(slice, 1, r.n)
                     /\ fbPanicked' = (r.out = "panic")
                     /\ fbLast' = [op |-> "read", offered |-> Len(slice), reported |-> k,
                                   flipped |-> with_read_flips(fb),
                                   out |-> r.out, n |-> r.n, before |-> fb]
    /\ fbReaderCalled' = TRUE
    /\ UNCHANGED <<fbWritten, progVars>>

\* a with_write call whose callback stores d bytes into the slice and
\* reports k <= d of them, reports one byte more than it was offered, or fails
FBWrite ==
    /\ ~fbPanicked
    /\ LET room == with_write_room(fb)
       IN  \E ok \in BOOLEAN, k \in 0..(room + 1), d \in {0, room} :
              /\ ~ok => k = 0
              /\ Len(fbWritten) + k <= MaxWritten
              /\ LET data == Fresh(IF k <= room THEN k ELSE room,
                                   IF k <= room /\ k > d THEN k ELSE d)
                     r    == with_write(fb, [ok |-> ok, n |-> k, data |-> data])
                 IN  /\ fb' = r.buf
                     /\ fbWritten' = fbWritten \o SubSeq(data, 1, r.n)
                     /\ fbPanicked' = (r.out = "panic")
                     /\ fbLast' = [op |-> "write", offered |-> room, reported |-> k,
                                   flipped |-> with_write_flips(fb),
                                   out |-> r.out, n |-> r.n, before |-> fb]
    /\ UNCHANGED <<fbRead, fbReaderCalled, progVars>>

NextFB == FBRead \/ FBWrite

(***************************************************************************)
(* The program: constants and the environment's bounds.                    *)
(***************************************************************************)
\* exit(255) in die
DieStatus == 255

\* status.code().unwrap_or(254): the child died by a signal
SignalStatus == 254

\* exit(255) after a failed child.wait()
WaitFailStatus == 255

\* child.id(), the pid spawn returned
ChildId == 1

\* peers that may connect to the socket
Clients == {1, 2}

\* exit codes the child may exit with
ExitCodes == {3}

\* number of bytes each client may send
MaxClientBytes == 1

\* number of termination signals this process may receive
MaxSignals == 1

\* number of bytes the child may write to its stdout and stderr together:
\* enough to fill a page of the outbound buffer and one byte more
MaxChildOut == BUFFER_BYTES + 1

\* the slow-child scenario: the size of the buffers (larger than the child's
\* stdin pipe), the number of bytes the client sends and the number of
\* signals this process may receive
WindowBytes == BUFFER_BYTES + 2
WindowLen == 2 * WindowBytes + 1
MaxInterrupts == MaxSignals + 1

\* length of the message of the echo scenario: longer than a buffer page
MessageLen == BUFFER_BYTES + 2

\* capacity of a pipe and of a socket's receive queue
PipeCap == BUFFER_BYTES
SockCap == BUFFER_BYTES

\* the i-th byte client c sends, and the i-th byte the child produces
ClientByte(c, i) == 10 * c + i
ChildByte(i) == 100 + i
SentBy(byte) == byte \div 10

Min(a, b) == IF a < b THEN a ELSE b

Code(n) == [kind |-> "code", code |-> n]
BySignal == [kind |-> "signal", code |-> 0]
NoStatus == [kind |-> "none", code |-> 0]
WaitFailed == [kind |-> "failed", code |-> 0]

\* the descriptors the bridge registers with epoll
FdStdout == <<"child_stdout", 0>>
FdStderr == <<"child_stderr", 0>>
FdListener == <<"listener", 0>>
FdNotify == <<"child_notify", 0>>
FdClient(c) == <<"client", c>>

InitProg ==
    /\ mpc = "bind"
    /\ wait_result = NoStatus
    /\ exit_status = 0 - 1
    /\ sock_file = FALSE
    /\ notify_pipe = 0
    /\ CHILD_PID = 0
    /\ handlers = FALSE
    /\ signals = 0
    /\ sigterm_log = {}
    /\ bpc = "unborn"
    /\ berr = "none"
    /\ ready = {}
    /\ epoll_set = {}
    /\ socket_client = 0
    /\ child_stdin_buf = new(BUFFER_BYTES)
    /\ child_stdouterr_buf = new(BUFFER_BYTES)
    /\ stdout_sink = <<>>
    /\ child = "none"
    /\ child_status = NoStatus
    /\ child_termed = FALSE
    /\ child_out = 0
    /\ child_got = <<>>
    /\ child_held = <<>>
    /\ stdin_pipe = <<>>
    /\ stdout_pipe = <<>>
    /\ stderr_pipe = <<>>
    /\ cli_end = [c \in Clients |-> "none"]
    /\ srv_end = [c \in Clients |-> "none"]
    /\ backlog = <<>>
    /\ c2s = [c \in Clients |-> <<>>]
    /\ s2c = [c \in Clients |-> <<>>]
    /\ client_sent = [c \in Clients |-> 0]
    /\ client_got = [c \in Clients |-> <<>>]
    /\ rejected = {}

\* this process has not exited
Alive == mpc # "done"

\* socket_stream_bridge has returned: everything it owned is dropped
Returned == bpc \in {"ok", "err"}

\* the bridge thread is inside the loop
Looping == bpc \in {"wait", "dispatch", "drain_in", "drain_out"}

(***************************************************************************)
(* The child process.                                                      *)
(***************************************************************************)
\* the child writes one byte to its stdout
ChildWriteStdout ==
    /\ Alive /\ ~Returned
    /\ child = "running"
    /\ child_out < MaxChildOut
    /\ Len(stdout_pipe) < PipeCap
    /\ stdout_pipe' = Append(stdout_pipe, ChildByte(child_out + 1))
    /\ child_out' = child_out + 1
    /\ UNCHANGED <<fbVars, lifeVars, notify_pipe, sigVars, loopVars, stdout_sink,
                   child, child_status, child_termed, child_got, child_held,
                   stdin_pipe, stderr_pipe, peerVars>>

\* the child writes one byte to its stderr
ChildWriteStderr ==
    /\ Alive /\ ~Returned
    /\ child = "running"
    /\ child_out < MaxChildOut
    /\ Len(stderr_pipe) < PipeCap
    /\ stderr_pipe' = Append(stderr_pipe, ChildByte(child_out + 1))
    /\ child_out' = child_out + 1
    /\ UNCHANGED <<fbVars, lifeVars, notify_pipe, sigVars, loopVars, stdout_sink,
                   child, child_status, child_termed, child_got, child_held,
                   stdin_pipe, stdout_pipe, peerVars>>

\* the child reads what its stdin holds
ChildRead ==
    /\ Alive
    /\ child = "running"
    /\ stdin_pipe # <<>>
    /\ child_got' = child_got \o stdin_pipe
    /\ stdin_pipe' = <<>>
    /\ UNCHANGED <<fbVars, lifeVars, notify_pipe, sigVars, loopVars, stdout_sink,
                   child, child_status, child_termed, child_out, child_held,
                   stdout_pipe, stderr_pipe, peerVars>>

\* an echoing child (cat) reads what its stdin holds
ChildEchoRead ==
    /\ Alive
    /\ child = "running"
    /\ child_held = <<>>
    /\ stdin_pipe # <<>>
    /\ child_got' = child_got \o stdin_pipe
    /\ child_held' = stdin_pipe
    /\ stdin_pipe' = <<>>
    /\ UNCHANGED <<fbVars, lifeVars, notify_pipe, sigVars, loopVars, stdout_sink,
                   child, child_status, child_termed, child_out,
                   stdout_pipe, stderr_pipe, peerVars>>

\* and writes it to its stdout, as much as the pipe takes
ChildEchoWrite ==
    /\ Alive /\ ~Returned
    /\ child = "running"
    /\ child_held # <<>>
    /\ Len(stdout_pipe) < PipeCap
    /\ LET k == Min(Len(child_held), PipeCap - Len(stdout_pipe))
       IN  /\ stdout_pipe' = stdout_pipe \o SubSeq(child_held, 1, k)
           /\ child_held' = SubSeq(child_held, k + 1, Len(child_held))
    /\ UNCHANGED <<fbVars, lifeVars, notify_pipe, sigVars, loopVars, stdout_sink,
                   child, child_status, child_termed, child_out, child_got,
                   stdin_pipe, stderr_pipe, peerVars>>

\* the child exits on its own with an exit code; what its stdin pipe held is lost
ChildExit ==
    /\ Alive
    /\ child = "running"
    /\ \E code \in ExitCodes : child_status' = Code(code)
    /\ child' = "exited"
    /\ stdin_pipe' = <<>>
    /\ UNCHANGED <<fbVars, lifeVars, notify_pipe, sigVars, loopVars, stdout_sink,
                   child_termed, child_out, child_got, child_held,
                   stdout_pipe, stderr_pipe, peerVars>>

\* the child dies of the SIGTERM it was sent (it has no exit code)
ChildKilled ==
    /\ Alive
    /\ child = "running"
    /\ child_termed
    /\ child_status' = BySignal
    /\ child' = "exited"
    /\ stdin_pipe' = <<>>
    /\ UNCHANGED <<fbVars, lifeVars, notify_pipe, sigVars, loopVars, stdout_sink,
                   child_termed, child_out, child_got, child_held,
                   stdout_pipe, stderr_pipe, peerVars>>

(***************************************************************************)
(* The peers of the socket.                                                *)
(***************************************************************************)
\* the listener exists: bound by main, dropped when the bridge returns
Listening == sock_file /\ ~Returned

ClientConnect(c) ==
    /\ Alive /\ Listening
    /\ cli_end[c] = "none"
    /\ \A d \in Clients : d < c => cli_end[d] # "none"
    /\ cli_end' = [cli_end EXCEPT ![c] = "open"]
    /\ srv_end' = [srv_end EXCEPT ![c] = "backlog"]
    /\ backlog' = Append(backlog, c)
    /\ UNCHANGED <<fbVars, lifeVars, notify_pipe, sigVars, loopVars, stdout_sink,
                   childVars, pipeVars, c2s, s2c, client_sent, client_got, rejected>>

\* peer c writes the next byte of its at most limit bytes to the socket
Send(c, limit) ==
    /\ Alive
    /\ cli_end[c] = "open"
    /\ srv_end[c] \in {"backlog", "open"}
    /\ client_sent[c] < limit
    /\ c2s' = [c2s EXCEPT ![c] = Append(@, ClientByte(c, client_sent[c] + 1))]
    /\ client_sent' = [client_sent EXCEPT ![c] = @ + 1]
    /\ UNCHANGED <<fbVars, lifeVars, notify_pipe, sigVars, loopVars, stdout_sink,
                   childVars, pipeVars, cli_end, srv_end, backlog, s2c, client_got,
                   rejected>>

ClientSend(c) == Send(c, MaxClientBytes)

\* the slow-child scenario's client sends its bytes
ClientSendWindow == Send(1, WindowLen)

\* the echo scenario's client sends its message
ClientSendMessage == Send(1, MessageLen)

ClientRecv(c) ==
    /\ Alive
    /\ cli_end[c] = "open"
    /\ s2c[c] # <<>>
    /\ client_got' = [client_got EXCEPT ![c] = @ \o s2c[c]]
    /\ s2c' = [s2c EXCEPT ![c] = <<>>]
    /\ UNCHANGED <<fbVars, lifeVars, notify_pipe, sigVars, loopVars, stdout_sink,
                   childVars, pipeVars, cli_end, srv_end, backlog, c2s, client_sent,
                   rejected>>

ClientClose(c) ==
    /\ Alive
    /\ cli_end[c] = "open"
    /\ cli_end' = [cli_end EXCEPT ![c] = "closed"]
    /\ UNCHANGED <<fbVars, lifeVars, notify_pipe, sigVars, loopVars, stdout_sink,
                   childVars, pipeVars, srv_end, backlog, c2s, s2c, client_sent,
                   client_got, rejected>>

(***************************************************************************)
(* signals.rs                                                              *)
(***************************************************************************)
\* on_terminate_signal: libc::kill(CHILD_PID, libc::SIGTERM).  A pid of 0
\* names the caller's process group; the child's pid names the child until
\* it is reaped.
on_terminate_signal ==
    /\ sigterm_log' = sigterm_log \cup {IF CHILD_PID = ChildId THEN child ELSE "group"}
    /\ child_termed' = (child_termed \/ (CHILD_PID = ChildId /\ child = "running"))

(***************************************************************************)
(* socket_stream_bridge                                                    *)
(***************************************************************************)
\* level-triggered EPOLLIN: data to read, a pending connection, or the other
\* end closed
Readable(fd) ==
    CASE fd = FdNotify   -> notify_pipe > 0
      [] fd = FdStdout   -> stdout_pipe # <<>> \/ child \in {"exited", "reaped"}
      [] fd = FdStderr   -> stderr_pipe # <<>> \/ child \in {"exited", "reaped"}
      [] fd = FdListener -> backlog # <<>>
      [] OTHER           -> c2s[fd[2]] # <<>> \/ cli_end[fd[2]] = "closed"

ReadyNow == {fd \in epoll_set : Readable(fd)}

\* what dropping the listener and the client stream does to the peers
DropAll(ends) ==
    [c \in Clients |-> IF ends[c] \in {"backlog", "open"} THEN "closed" ELSE ends[c]]

\* lines 153-159: epoll::create and the four epoll_add calls
BridgeSetup ==
    /\ Alive
    /\ bpc = "setup"
    /\ epoll_set' = {FdStdout, FdStderr, FdListener, FdNotify}
    /\ bpc' = "wait"
    /\ UNCHANGED <<fbVars, lifeVars, notify_pipe, sigVars, berr, ready, socket_client,
                   child_stdin_buf, child_stdouterr_buf, stdout_sink, childVars,
                   pipeVars, peerVars>>

\* line 175: epoll::wait(pollster, -1, ..) returns the descriptors that are ready
EpollWait ==
    /\ Alive
    /\ bpc = "wait"
    /\ ReadyNow # {}
    /\ ready' = ReadyNow
    /\ bpc' = "dispatch"
    /\ UNCHANGED <<fbVars, lifeVars, notify_pipe, sigVars, berr, epoll_set,
                   socket_client, child_stdin_buf, child_stdouterr_buf, stdout_sink,
                   childVars, pipeVars, peerVars>>

\* the for loop goes on to the next reported descriptor, or ends
Processed(fd) ==
    /\ ready' = ready \ {fd}
    /\ bpc' = IF ready \ {fd} = {} THEN "drain_in" ELSE "dispatch"

\* line 179 as a break of the for loop only: the drains still run
after_notify_inner_break == "drain_in"

\* line 179, break 'events: on to line 207, Ok(())
after_notify == "ok"

\* lines 178-179: the event is the notification pipe's: break 'events
OnNotify ==
    /\ Alive
    /\ bpc = "dispatch"
    /\ FdNotify \in ready
    /\ bpc' = after_notify
    /\ srv_end' = DropAll(srv_end)
    /\ backlog' = <<>>
    /\ UNCHANGED <<fbVars, lifeVars, notify_pipe, sigVars, berr, ready, epoll_set,
                   socket_client, child_stdin_buf, child_stdouterr_buf, stdout_sink,
                   childVars, pipeVars, cli_end, c2s, s2c, client_sent, client_got,
                   rejected>>

\* read(buf) on a pipe or a socket: what is queued, at most Len(buf) bytes;
\* 0 for an empty buf and at end of file
os_read(queue, room) == SubSeq(queue, 1, Min(room, Len(queue)))

\* buf.with_write(|buf| stream.read(buf))
ReadInto(b, queue) ==
    LET data == os_read(queue, with_write_room(b))
    IN  with_write(b, [ok |-> TRUE, n |-> Len(data), data |-> data])

Rest(queue, n) == SubSeq(queue, n + 1, Len(queue))

\* lines 180-181: the event is child_stdout's
OnChildStdout ==
    /\ Alive
    /\ bpc = "dispatch"
    /\ FdStdout \in ready
    /\ LET r == ReadInto(child_stdouterr_buf, stdout_pipe)
       IN  /\ child_stdouterr_buf' = r.buf
           /\ stdout_pipe' = Rest(stdout_pipe, r.n)
    /\ Processed(FdStdout)
    /\ UNCHANGED <<fbVars, lifeVars, notify_pipe, sigVars, berr, epoll_set,
                   socket_client, child_stdin_buf, stdout_sink, childVars,
                   stdin_pipe, stderr_pipe, peerVars>>

\* lines 182-183: the event is child_stderr's
OnChildStderr ==
    /\ Alive
    /\ bpc = "dispatch"
    /\ FdStderr \in ready
    /\ LET r == ReadInto(child_stdouterr_buf, stderr_pipe)
       IN  /\ child_stdouterr_buf' = r.buf
           /\ stderr_pipe' = Rest(stderr_pipe, r.n)
    /\ Processed(FdStderr)
    /\ UNCHANGED <<fbVars, lifeVars, notify_pipe, sigVars, berr, epoll_set,
                   socket_client, child_stdin_buf, stdout_sink, childVars,
                   stdin_pipe, stdout_pipe, peerVars>>

\* line 186 without the test: every accepted connection is adopted
adopts_always(sc) == TRUE

\* line 186, negated: the accepted connection becomes the active client
adopts(sc) == sc = 0

\* lines 184-191: the event is the listener's
OnListener ==
    /\ Alive
    /\ bpc = "dispatch"
    /\ FdListener \in ready
    /\ LET new_client == Head(backlog)
       IN  /\ backlog' = Tail(backlog)
           /\ IF adopts(socket_client)
              THEN /\ epoll_set' = epoll_set \cup {FdClient(new_client)}
                   /\ socket_client' = new_client
                   /\ srv_end' = [srv_end EXCEPT ![new_client] = "open"]
                   /\ UNCHANGED rejected
              ELSE /\ srv_end' = [srv_end EXCEPT ![new_client] = "closed"]
                   /\ rejected' = rejected \cup {new_client}
                   /\ UNCHANGED <<epoll_set, socket_client>>
    /\ Processed(FdListener)
    /\ UNCHANGED <<fbVars, lifeVars, notify_pipe, sigVars, berr, child_stdin_buf,
                   child_stdouterr_buf, stdout_sink, childVars, pipeVars, cli_end,
                   c2s, s2c, client_sent, client_got>>

\* lines 192-197: the event is any other descriptor's and a client is active
OnClient ==
    /\ Alive
    /\ bpc = "dispatch"
    /\ \E fd \in ready \ {FdNotify, FdStdout, FdStderr, FdListener} :
          /\ Processed(fd)
          /\ IF socket_client # 0
             THEN LET client == socket_client
                      r      == ReadInto(child_stdin_buf, c2s[client])
                  IN  /\ child_stdin_buf' = r.buf
                      /\ c2s' = [c2s EXCEPT ![client] = Rest(@, r.n)]
                      /\ IF r.n = 0
                         THEN /\ socket_client' = 0
                              /\ srv_end' = [srv_end EXCEPT ![client] = "closed"]
                              /\ epoll_set' = epoll_set \ {FdClient(client)}
                         ELSE UNCHANGED <<socket_client, srv_end, epoll_set>>
             ELSE UNCHANGED <<child_stdin_buf, c2s, socket_client, srv_end, epoll_set>>
    /\ UNCHANGED <<fbVars, lifeVars, notify_pipe, sigVars, berr, child_stdouterr_buf,
                   stdout_sink, childVars, pipeVars, cli_end, backlog, s2c,
                   client_sent, client_got, rejected>>

\* the function returns Err(err): everything it owns is dropped
Fails(err) ==
    /\ bpc' = "err"
    /\ berr' = err
    /\ srv_end' = DropAll(srv_end)
    /\ backlog' = <<>>

\* line 200: child_stdin_buf.with_read(|buf| child_stdin.write(buf))?
\* child_stdin is a blocking pipe: the write returns when all of buf is
\* queued, fails with EPIPE once the child is gone, and writes nothing for
\* an empty buf.
DrainIn ==
    /\ Alive
    /\ bpc = "drain_in"
    /\ LET slice == with_read_slice(child_stdin_buf)
       IN  IF slice # <<>> /\ child # "running"
           THEN /\ child_stdin_buf' = with_read(child_stdin_buf, [ok |-> FALSE, n |-> 0]).buf
                /\ Fails("EPIPE_child_stdin")
                /\ UNCHANGED stdin_pipe
           ELSE /\ Len(stdin_pipe) + Len(slice) <= PipeCap
                /\ child_stdin_buf' =
                       with_read(child_stdin_buf, [ok |-> TRUE, n |-> Len(slice)]).buf
                /\ stdin_pipe' = stdin_pipe \o slice
                /\ bpc' = "drain_out"
                /\ UNCHANGED <<berr, srv_end, backlog>>
    /\ UNCHANGED <<fbVars, lifeVars, notify_pipe, sigVars, ready, epoll_set,
                   socket_client, child_stdouterr_buf, stdout_sink, childVars,
                   stdout_pipe, stderr_pipe, cli_end, c2s, s2c, client_sent,
                   client_got, rejected>>

\* lines 201-204 with the match lost: the outbound bytes go to stdout
sink_stdout(sc) == "stdout"

\* lines 201-204, the match: where the outbound bytes go
sink(sc) == IF sc # 0 THEN "client" ELSE "stdout"

\* lines 201-204: child_stdouterr_buf.with_read(|buf| client.write(buf))? or
\* child_stdouterr_buf.with_read(|buf| stdout.write(buf))?
\* The client's socket is blocking: the write returns when all of buf is
\* queued, and fails with EPIPE once the peer has closed.
DrainOut ==
    /\ Alive
    /\ bpc = "drain_out"
    /\ LET slice == with_read_slice(child_stdouterr_buf)
           done  == with_read(child_stdouterr_buf, [ok |-> TRUE, n |-> Len(slice)]).buf
       IN  IF sink(socket_client) = "client"
           THEN LET client == socket_client
                IN  IF slice # <<>> /\ cli_end[client] = "closed"
                    THEN /\ child_stdouterr_buf' =
                               with_read(child_stdouterr_buf, [ok |-> FALSE, n |-> 0]).buf
                         /\ Fails("EPIPE_client")
                         /\ UNCHANGED <<s2c, stdout_sink>>
                    ELSE /\ Len(s2c[client]) + Len(slice) <= SockCap
                         /\ child_stdouterr_buf' = done
                         /\ s2c' = [s2c EXCEPT ![client] = @ \o slice]
                         /\ bpc' = "wait"
                         /\ UNCHANGED <<berr, srv_end, backlog, stdout_sink>>
           ELSE /\ child_stdouterr_buf' = done
                /\ stdout_sink' = stdout_sink \o slice
                /\ bpc' = "wait"
                /\ UNCHANGED <<berr, srv_end, backlog, s2c>>
    /\ UNCHANGED <<fbVars, lifeVars, notify_pipe, sigVars, ready, epoll_set,
                   socket_client, child_stdin_buf, childVars, pipeVars, cli_end,
                   c2s, client_sent, client_got, rejected>>

\* the bridge thread sleeps in a system call
Blocked ==
    \/ bpc = "wait" /\ ReadyNow = {}
    \/ /\ bpc = "drain_in"
       /\ child = "running"
       /\ Len(stdin_pipe) + Len(with_read_slice(child_stdin_buf)) > PipeCap
    \/ /\ bpc = "drain_out"
       /\ socket_client # 0
       /\ cli_end[socket_client] # "closed"
       /\ Len(s2c[socket_client]) + Len(with_read_slice(child_stdouterr_buf)) > SockCap

\* the bridge thread sleeps in a system call that has transferred nothing
Stalled ==
    \/ bpc = "wait" /\ ReadyNow = {}
    \/ bpc = "drain_in" /\ Blocked /\ Len(stdin_pipe) = PipeCap
    \/ bpc = "drain_out" /\ Blocked /\ Len(s2c[socket_client]) = SockCap

\* SIGHUP, SIGTERM or SIGINT is delivered on the main thread, or on the
\* bridge thread while it is not sleeping: the handler runs, and wait,
\* write_all and join go on
SignalOnMain ==
    /\ Alive
    /\ handlers
    /\ signals < MaxSignals
    /\ signals' = signals + 1
    /\ on_terminate_signal
    /\ UNCHANGED <<fbVars, lifeVars, notify_pipe, CHILD_PID, handlers, loopVars,
                   stdout_sink, child, child_status, child_out, child_got, child_held,
                   pipeVars, peerVars>>

\* the signal is delivered on the bridge thread while it sleeps in
\* epoll_wait, or in a write that has written nothing yet: the handler runs
\* and the call fails with EINTR (sa_flags is 0, and `?` returns the error)
SignalOnBridge ==
    /\ Alive
    /\ handlers
    /\ signals < MaxSignals
    /\ Stalled
    /\ signals' = signals + 1
    /\ on_terminate_signal
    /\ Fails("EINTR")
    /\ UNCHANGED <<fbVars, lifeVars, notify_pipe, CHILD_PID, handlers, ready,
                   epoll_set, socket_client, child_stdin_buf, child_stdouterr_buf,
                   stdout_sink, child, child_status, child_out, child_got, child_held,
                   pipeVars, cli_end, c2s, s2c, client_sent, client_got, rejected>>

\* line 200, the write to child_stdin interrupted: the pipe took the bytes
\* it had room for and the write slept for the rest; the signal's handler
\* runs and write returns the number of bytes written so far
DrainInInterrupted ==
    /\ Alive
    /\ handlers
    /\ signals < MaxInterrupts
    /\ bpc = "drain_in"
    /\ child = "running"
    /\ LET slice == with_read_slice(child_stdin_buf)
           room  == PipeCap - Len(stdin_pipe)
       IN  /\ room > 0
           /\ Len(slice) > room
           /\ child_stdin_buf' =
                  with_read(child_stdin_buf, [ok |-> TRUE, n |-> room]).buf
           /\ stdin_pipe' = stdin_pipe \o SubSeq(slice, 1, room)
    /\ signals' = signals + 1
    /\ on_terminate_signal
    /\ bpc' = "drain_out"
    /\ UNCHANGED <<fbVars, lifeVars, notify_pipe, CHILD_PID, handlers, berr, ready,
                   epoll_set, socket_client, child_stdouterr_buf, stdout_sink, child,
                   child_status, child_out, child_got, child_held, stdout_pipe,
                   stderr_pipe, peerVars>>

(***************************************************************************)
(* main                                                                    *)
(***************************************************************************)
\* die: eprintln and exit(255)
die ==
    /\ exit_status' = DieStatus
    /\ mpc' = "done"

\* line 219: UnixListener::bind creates the socket file
MainBind ==
    /\ mpc = "bind"
    /\ sock_file' = TRUE
    /\ mpc' = "pipe"
    /\ UNCHANGED <<fbVars, wait_result, exit_status, notify_pipe, sigVars, loopVars,
                   stdout_sink, childVars, pipeVars, peerVars>>

\* line 222: pipe()
MainPipe ==
    /\ mpc = "pipe"
    /\ mpc' = "spawn"
    /\ UNCHANGED <<fbVars, wait_result, exit_status, sock_file, notify_pipe, sigVars,
                   loopVars, stdout_sink, childVars, pipeVars, peerVars>>

\* lines 225-231: Command::spawn
MainSpawn ==
    /\ mpc = "spawn"
    /\ child' = "running"
    /\ mpc' = "set_pid"
    /\ UNCHANGED <<fbVars, wait_result, exit_status, sock_file, notify_pipe, sigVars,
                   loopVars, stdout_sink, child_status, child_termed, child_out,
                   child_got, child_held, pipeVars, peerVars>>

\* signals.rs line 38: CHILD_PID = child_pid
kill_child_on_signal_store ==
    /\ mpc = "set_pid"
    /\ CHILD_PID' = ChildId
    /\ mpc' = "sigaction"
    /\ UNCHANGED <<fbVars, wait_result, exit_status, sock_file, notify_pipe, handlers,
                   signals, sigterm_log, loopVars, stdout_sink, childVars, pipeVars,
                   peerVars>>

\* signals.rs lines 40-47: the three sigaction calls
kill_child_on_signal_install ==
    /\ mpc = "sigaction"
    /\ handlers' = TRUE
    /\ mpc' = "thread"
    /\ UNCHANGED <<fbVars, wait_result, exit_status, sock_file, notify_pipe, CHILD_PID,
                   signals, sigterm_log, loopVars, stdout_sink, childVars, pipeVars,
                   peerVars>>

\* lines 240-242: spawn the worker thread
MainThread ==
    /\ mpc = "thread"
    /\ bpc' = "setup"
    /\ mpc' = "wait"
    /\ UNCHANGED <<fbVars, wait_result, exit_status, sock_file, notify_pipe, sigVars,
                   berr, ready, epoll_set, socket_client, child_stdin_buf,
                   child_stdouterr_buf, stdout_sink, childVars, pipeVars, peerVars>>

\* line 244: child.wait() returns once the child is dead, and reaps it
MainWait ==
    /\ mpc = "wait"
    /\ child = "exited"
    /\ wait_result' = child_status
    /\ child' = "reaped"
    /\ mpc' = "notify"
    /\ UNCHANGED <<fbVars, exit_status, sock_file, notify_pipe, sigVars, loopVars,
                   stdout_sink, child_status, child_termed, child_out, child_got,
                   child_held, pipeVars, peerVars>>

\* line 244: child.wait() returns Err: with SIGCHLD ignored (inherited from
\* the parent) the kernel reaps the dead child itself and waitpid fails
\* with ECHILD
MainWaitFails ==
    /\ mpc = "wait"
    /\ child = "exited"
    /\ wait_result' = WaitFailed
    /\ child' = "reaped"
    /\ mpc' = "notify"
    /\ UNCHANGED <<fbVars, exit_status, sock_file, notify_pipe, sigVars, loopVars,
                   stdout_sink, child_status, child_termed, child_out, child_got,
                   child_held, pipeVars, peerVars>>

\* lines 245-247: closer_write.write_all(&[1]); EPIPE once the bridge has
\* returned and dropped the read end
MainNotify ==
    /\ mpc = "notify"
    /\ IF Returned
       THEN die /\ UNCHANGED notify_pipe
       ELSE /\ notify_pipe' = notify_pipe + 1
            /\ mpc' = "join"
            /\ UNCHANGED exit_status
    /\ UNCHANGED <<fbVars, wait_result, sock_file, sigVars, loopVars, stdout_sink,
                   childVars, pipeVars, peerVars>>

\* join that does not wait for the worker
joined_at_once(b) == TRUE

\* line 249: worker.join() returns once socket_stream_bridge has returned
joined(b) == b \in {"ok", "err"}

\* lines 249-251 without the second unwrap_or_else: the Err is dropped
join_ok_always(b) == TRUE

\* line 251: the worker returned Ok(())
join_ok(b) == b = "ok"

\* lines 249-251: worker.join(), and die if the bridge returned an error
MainJoin ==
    /\ mpc = "join"
    /\ joined(bpc)
    /\ IF join_ok(bpc)
       THEN mpc' = "remove" /\ UNCHANGED exit_status
       ELSE die
    /\ UNCHANGED <<fbVars, wait_result, sock_file, notify_pipe, sigVars, loopVars,
                   stdout_sink, childVars, pipeVars, peerVars>>

\* lines 253-254: remove_file(&sock_path)
MainRemove ==
    /\ mpc = "remove"
    /\ sock_file' = FALSE
    /\ mpc' = "exit"
    /\ UNCHANGED <<fbVars, wait_result, exit_status, notify_pipe, sigVars, loopVars,
                   stdout_sink, childVars, pipeVars, peerVars>>

\* lines 256-262: exit(status.code().unwrap_or(254)), or exit(255) when
\* child.wait() failed
MainExit ==
    /\ mpc = "exit"
    /\ exit_status' = CASE wait_result.kind = "code"   -> wait_result.code
                         [] wait_result.kind = "failed" -> WaitFailStatus
                         [] OTHER                       -> SignalStatus
    /\ mpc' = "done"
    /\ UNCHANGED <<fbVars, wait_result, sock_file, notify_pipe, sigVars, loopVars,
                   stdout_sink, childVars, pipeVars, peerVars>>

(***************************************************************************)
(* Specifications.                                                         *)
(***************************************************************************)
\* the state once main waits for the child and the bridge has registered
\* its four descriptors, nothing else having happened; n is the size of
\* the two buffers
Running(n) ==
    /\ mpc = "wait"
    /\ wait_result = NoStatus
    /\ exit_status = 0 - 1
    /\ sock_file = TRUE
    /\ notify_pipe = 0
    /\ CHILD_PID = ChildId
    /\ handlers = TRUE
    /\ signals = 0
    /\ sigterm_log = {}
    /\ bpc = "wait"
    /\ berr = "none"
    /\ ready = {}
    /\ epoll_set = {FdStdout, FdStderr, FdListener, FdNotify}
    /\ socket_client = 0
    /\ child_stdin_buf = new(n)
    /\ child_stdouterr_buf = new(n)
    /\ stdout_sink = <<>>
    /\ child = "running"
    /\ child_status = NoStatus
    /\ child_termed = FALSE
    /\ child_out = 0
    /\ child_got = <<>>
    /\ child_held = <<>>
    /\ stdin_pipe = <<>>
    /\ stdout_pipe = <<>>
    /\ stderr_pipe = <<>>
    /\ cli_end = [c \in Clients |-> "none"]
    /\ srv_end = [c \in Clients |-> "none"]
    /\ backlog = <<>>
    /\ c2s = [c \in Clients |-> <<>>]
    /\ s2c = [c \in Clients |-> <<>>]
    /\ client_sent = [c \in Clients |-> 0]
    /\ client_got = [c \in Clients |-> <<>>]
    /\ rejected = {}

InitRun == Running(BUFFER_BYTES)

\* The bridge loop while the child runs: any peers, a child that writes to
\* its stdout and stderr and reads its stdin.
Next ==
    \/ EpollWait
    \/ OnChildStdout \/ OnChildStderr \/ OnListener \/ OnClient
    \/ DrainIn \/ DrainOut
    \/ \E c \in Clients :
          ClientConnect(c) \/ ClientSend(c) \/ ClientRecv(c) \/ ClientClose(c)
    \/ ChildWriteStdout \/ ChildWriteStderr \/ ChildRead

Init == InitFB /\ InitRun

Spec == Init /\ [][Next]_vars

\* The whole program from the start of main, with one peer: the child
\* exits or is killed, termination signals arrive.
NextLife ==
    \/ MainBind \/ MainPipe \/ MainSpawn
    \/ kill_child_on_signal_store \/ kill_child_on_signal_install
    \/ MainThread \/ MainWait \/ MainNotify \/ MainJoin \/ MainRemove \/ MainExit
    \/ BridgeSetup \/ EpollWait
    \/ OnNotify \/ OnChildStdout \/ OnChildStderr \/ OnListener \/ OnClient
    \/ DrainIn \/ DrainOut
    \/ ClientConnect(1) \/ ClientSend(1) \/ ClientRecv(1) \/ ClientClose(1)
    \/ ChildWriteStdout \/ ChildWriteStderr \/ ChildRead
    \/ ChildExit \/ ChildKilled
    \/ SignalOnMain \/ SignalOnBridge

InitLife == InitFB /\ InitProg

SpecLife == InitLife /\ [][NextLife]_vars

\* The FlipBuffer harness; the program has not started.
SpecFB == InitLife /\ [][NextFB]_vars

\* The lifecycle with a silent child and no peer, where child.wait() may
\* fail.
NextWait ==
    \/ MainBind \/ MainPipe \/ MainSpawn
    \/ kill_child_on_signal_store \/ kill_child_on_signal_install
    \/ MainThread \/ MainWait \/ MainWaitFails
    \/ MainNotify \/ MainJoin \/ MainRemove \/ MainExit
    \/ BridgeSetup \/ EpollWait
    \/ OnNotify \/ OnChildStdout \/ OnChildStderr
    \/ DrainIn \/ DrainOut
    \/ ChildExit \/ ChildKilled
    \/ SignalOnMain \/ SignalOnBridge

SpecWait == InitLife /\ [][NextWait]_vars

\* The bridge loop scheduled fairly, its environment free to stop: the
\* child and the peers may read, or not.
FairBridge ==
    /\ WF_vars(EpollWait)
    /\ WF_vars(OnChildStdout) /\ WF_vars(OnChildStderr)
    /\ WF_vars(OnListener) /\ WF_vars(OnClient)
    /\ WF_vars(DrainIn) /\ WF_vars(DrainOut)

SpecStall == Init /\ [][Next]_vars /\ FairBridge

\* The slow-child scenario: buffers larger than the room in the child's
\* stdin pipe, one client that sends more than two pages, a silent child
\* that survives SIGTERM and reads when it likes, signals that interrupt
\* the bridge thread.
NextWindow ==
    \/ EpollWait
    \/ OnListener \/ OnClient
    \/ DrainIn \/ DrainOut \/ DrainInInterrupted
    \/ SignalOnBridge
    \/ ClientConnect(1) \/ ClientSendWindow \/ ClientClose(1)
    \/ ChildRead

InitWindow == InitFB /\ Running(WindowBytes)

SpecWindow == InitWindow /\ [][NextWindow]_vars

\* The echo scenario: the running bridge, an echoing child and one client
\* that sends a message and reads what comes back; nobody shuts down.  The
\* threads and processes are scheduled fairly.
NextEcho ==
    \/ EpollWait
    \/ OnChildStdout
    \/ OnListener
    \/ OnClient
    \/ DrainIn
    \/ DrainOut
    \/ ClientConnect(1)
    \/ ClientSendMessage
    \/ ClientRecv(1)
    \/ ChildEchoRead
    \/ ChildEchoWrite

FairEcho ==
    /\ WF_vars(EpollWait)
    /\ WF_vars(OnChildStdout)
    /\ WF_vars(OnListener)
    /\ WF_vars(OnClient)
    /\ WF_vars(DrainIn)
    /\ WF_vars(DrainOut)
    /\ WF_vars(ClientConnect(1))
    /\ WF_vars(ClientSendMessage)
    /\ WF_vars(ClientRecv(1))
    /\ WF_vars(ChildEchoRead)
    /\ WF_vars(ChildEchoWrite)

SpecEcho == Init /\ [][NextEcho]_vars /\ FairEcho

(***************************************************************************)
(* Claims about FlipBuffer, checked under SpecFB.                          *)
(***************************************************************************)
IsPrefix(s, t) == Len(s) <= Len(t) /\ SubSeq(t, 1, Len(s)) = s

Drained(b) == b.read_cursor = b.read_max /\ b.write_cursor = 0

\* C1: as long as no callback has reported more bytes than it was offered,
\* the bytes consumed through with_read are a prefix of the bytes produced
\* through with_write (same bytes, same order: nothing lost, duplicated,
\* stale or uninitialized), and the two are equal whenever the buffer is
\* drained (read_cursor = read_max and write_cursor = 0).
C1_LosslessFifo ==
    ~fbPanicked =>
        /\ IsPrefix(fbRead, fbWritten)
        /\ Drained(fb) => fbRead = fbWritten

\* C1 witness: more than 2N bytes went through the buffer (both pages were
\* used in both roles) and it is drained again.
C1_Witness ==
    /\ ~fbPanicked
    /\ Drained(fb)
    /\ Len(fbRead) = MaxWritten
    /\ fbRead = fbWritten

\* C9: in every reachable state, whatever the callbacks did (partial,
\* zero-length, failing, over-reporting), 0 <= read_cursor <= read_max <= N
\* and 0 <= write_cursor <= N.
C9_CursorInvariant ==
    /\ 0 <= fb.read_cursor
    /\ fb.read_cursor <= fb.read_max
    /\ fb.read_max <= N
    /\ 0 <= fb.write_cursor
    /\ fb.write_cursor <= N

\* C9 witness: a failing callback just returned while the read pool is
\* partly consumed and the write pool is full.
C9_Witness ==
    /\ fbLast.out = "err"
    /\ 0 < fb.read_cursor
    /\ fb.read_cursor < fb.read_max
    /\ fb.write_cursor = N

\* C10 as stated: while with_read has never been called, with_write accepts
\* at most N bytes.
C10_AtMostNWithoutReader ==
    ~fbReaderCalled => Len(fbWritten) <= N

\* C10 amended: the buffer never holds more than 2N unread bytes, so at most
\* 2N bytes are accepted while with_read has never been called; the
\* (N+1)-th byte is accepted only after a flip, which with_write performs
\* itself when the write pool is full and the read pool has no unread byte;
\* a with_write call is offered an empty slice exactly when it finds
\* write_cursor = N and read_cursor < read_max.
C10_AtMost2NWithoutReader ==
    /\ Len(fbWritten) - Len(fbRead) <= 2 * N
    /\ ~fbReaderCalled => Len(fbWritten) <= 2 * N
    /\ (~fbReaderCalled /\ Len(fbWritten) > N) =>
           (fb.read_max = N /\ fb.read_cursor = 0)
    /\ fbLast.op = "write" =>
           (fbLast.offered = 0 <=>
                (fbLast.before.write_cursor = N
                 /\ fbLast.before.read_cursor < fbLast.before.read_max))

\* C10 witness: 2N bytes were accepted with no with_read call, and the next
\* with_write call was offered an empty slice.
C10_Witness ==
    /\ ~fbReaderCalled
    /\ Len(fbWritten) = 2 * N
    /\ fbLast.op = "write"
    /\ fbLast.offered = 0

\* the cursors a call starts from, once its flip check has run
C13_Start ==
    IF fbLast.flipped
    THEN [read_cursor |-> 0, write_cursor |-> 0]
    ELSE [read_cursor |-> fbLast.before.read_cursor,
          write_cursor |-> fbLast.before.write_cursor]

\* C13: a with_read or with_write call whose callback returns Ok(k) panics
\* exactly when k is more than the length of the slice it was offered, and
\* then no cursor is advanced; when k is at most that length exactly k is
\* added to read_cursor (with_read) or to write_cursor (with_write), the
\* other cursor stays, and k is returned.
C13_PanicOrAdvance ==
    fbLast.op # "none" =>
        /\ fbPanicked <=> fbLast.out = "panic"
        /\ fbLast.out # "err" => (fbLast.out = "panic" <=> fbLast.reported > fbLast.offered)
        /\ fbLast.out = "panic" =>
               /\ fb.read_cursor = C13_Start.read_cursor
               /\ fb.write_cursor = C13_Start.write_cursor
        /\ fbLast.out = "ok" =>
               /\ fbLast.n = fbLast.reported
               /\ fb.read_cursor = C13_Start.read_cursor
                                      + (IF fbLast.op = "read" THEN fbLast.reported ELSE 0)
               /\ fb.write_cursor = C13_Start.write_cursor
                                      + (IF fbLast.op = "write" THEN fbLast.reported ELSE 0)

\* C13 witness: a with_read callback that was offered unread bytes reported
\* one byte more than it was offered, and the call panicked.
C13_Witness ==
    /\ fbLast.op = "read"
    /\ fbLast.out = "panic"
    /\ fbLast.offered > 0
    /\ fbLast.reported = fbLast.offered + 1

\* C18: flip_buffers runs only where the read pool has no unread byte, and
\* then only with write_cursor > 0 when with_read runs it and with
\* write_cursor = N when with_write runs it; it runs in every such call, it
\* hands the written bytes over to the reader, and a call that does not flip
\* offers exactly the remaining slice: read_max - read_cursor readable
\* bytes, N - write_cursor writable bytes, possibly none.
C18_FlipAtSafeBoundary ==
    LET b == fbLast.before
    IN  /\ fbLast.op = "read" =>
               /\ fbLast.flipped <=> (b.read_cursor = b.read_max /\ b.write_cursor > 0)
               /\ fbLast.flipped =>
                      /\ fbLast.offered = b.write_cursor
                      /\ fb.read_page = b.write_page
                      /\ fb.read_max = b.write_cursor
               /\ ~fbLast.flipped =>
                      /\ fbLast.offered = b.read_max - b.read_cursor
                      /\ fb.read_page = b.read_page
                      /\ fb.read_max = b.read_max
        /\ fbLast.op = "write" =>
               /\ fbLast.flipped <=> (b.read_cursor = b.read_max /\ b.write_cursor = N)
               /\ fbLast.flipped =>
                      /\ fbLast.offered = N
                      /\ fb.read_page = b.write_page
                      /\ fb.read_max = N
               /\ ~fbLast.flipped =>
                      /\ fbLast.offered = N - b.write_cursor
                      /\ fb.read_page = b.read_page
                      /\ fb.read_max = b.read_max

\* C18 witness: with_write has just flipped a full write pool, and the call
\* before left the read pool drained.
C18_Witness ==
    /\ fbLast.op = "write"
    /\ fbLast.flipped
    /\ fbLast.before.write_cursor = N
    /\ fbLast.before.read_max > 0

(***************************************************************************)
(* Claims about the bridge loop, checked under Spec.                       *)
(***************************************************************************)
\* every value stored in a buffer's two pages
BytesIn(b) == {b.read_page[i] : i \in 1..Cap(b)} \cup {b.write_page[i] : i \in 1..Cap(b)}

Range(q) == {q[i] : i \in 1..Len(q)}

\* a step that takes bytes out of the outbound buffer appends exactly those
\* bytes to the active client's socket if there is an active client, and to
\* stdout otherwise, and to nothing else
C2_Drain ==
    LET before == Unread(child_stdouterr_buf)
        after  == Unread(child_stdouterr_buf')
        k      == Len(before) - Len(after)
        taken  == SubSeq(before, 1, k)
    IN  k > 0 =>
            /\ after = Rest(before, k)
            /\ IF socket_client # 0
               THEN /\ s2c' = [s2c EXCEPT ![socket_client] = @ \o taken]
                    /\ stdout_sink' = stdout_sink
               ELSE /\ stdout_sink' = stdout_sink \o taken
                    /\ s2c' = s2c

C3_AtMostOne ==
    /\ Cardinality({c \in Clients : srv_end[c] = "open"}) <= 1
    /\ (socket_client # 0 /\ ~Returned) => srv_end[socket_client] = "open"
    /\ \A c \in rejected :
          /\ c # socket_client
          /\ srv_end[c] = "closed"
          /\ FdClient(c) \notin epoll_set
          /\ \A byte \in BytesIn(child_stdin_buf) \cup Range(stdin_pipe)
                          \cup Range(child_got) : SentBy(byte) # c

\* a step that accepts a connection while a client is active closes it and
\* changes nothing else of the bridge
C3_Reject ==
    (Len(backlog') < Len(backlog) /\ socket_client # 0 /\ bpc' \notin {"ok", "err"}) =>
        /\ srv_end' = [srv_end EXCEPT ![Head(backlog)] = "closed"]
        /\ Head(backlog) \in rejected'
        /\ UNCHANGED <<socket_client, epoll_set, child_stdin_buf,
                       child_stdouterr_buf, c2s, s2c>>

\* C3: at most one client is active in every reachable state; a connection
\* accepted while a client is active is closed at once, is never registered
\* with epoll, none of its bytes ever enters the inbound buffer, and the
\* step leaves the active client and both buffers unchanged.
C3_SingleClient == []C3_AtMostOne /\ [][C3_Reject]_vars

\* C3 witness: a peer that had sent a byte was rejected while the active
\* client's byte went on to the child.
C3_Witness ==
    /\ socket_client # 0
    /\ \E c \in rejected : c2s[c] # <<>>
    /\ child_got # <<>>

\* the message the echo scenario's client sends
Message == [i \in 1..MessageLen |-> ClientByte(1, i)]

\* C4: with one attached client and an echoing child, the bytes the client
\* sends reach the child's stdin in order and exactly once, what the client
\* receives is what the child echoed, and eventually the child has got the
\* whole message and the client has received the whole message back.
C4_EchoRoundTrip ==
    /\ [](IsPrefix(child_got, Message) /\ IsPrefix(client_got[1], child_got))
    /\ <>[](child_got = Message /\ client_got[1] = Message)

\* C4 witness: the client has received its whole message back.
C4_Witness == client_sent[1] = MessageLen /\ client_got[1] = Message

\* C5: child output is never buffered indefinitely: when the loop sleeps in
\* the readiness wait with no descriptor ready (and none need ever become
\* ready), the outbound buffer holds no byte.
C5_NothingLeftBehind ==
    (bpc = "wait" /\ ReadyNow = {}) => Unread(child_stdouterr_buf) = <<>>

\* C8: the loop never terminates abnormally because the active client
\* disconnected.
C8_DisconnectIsNoError == ~(bpc = "err" /\ berr = "EPIPE_client")

(***************************************************************************)
(* Claims about the lifecycle, checked under SpecLife.                     *)
(***************************************************************************)
\* C6: when the child exited on its own (no signal was received) and this
\* process has exited, the socket file is removed and this process's exit
\* status is the child's exit code.
C6_ExitMirrorsChild ==
    (mpc = "done" /\ signals = 0 /\ child_status.kind = "code") =>
        (exit_status = child_status.code /\ ~sock_file)

\* C7: when a termination signal was received after the handlers were
\* installed, the child was sent SIGTERM, and if it died without an exit
\* code this process exits with 254.
C7_SignalFallback ==
    /\ signals > 0 => sigterm_log # {}
    /\ (mpc = "done" /\ signals > 0 /\ child_status.kind = "signal") =>
           exit_status = SignalStatus

\* C11: once the bridge loop has failed with an I/O error, this process
\* exits with no status but 255, the status of die: never with the child's
\* exit code, never with success, and never through the final match (the
\* socket file stays).  It exits when child.wait() has returned.
C11_LoopFailureIsFatal ==
    (bpc = "err" /\ mpc = "done") =>
        /\ exit_status = DieStatus
        /\ exit_status \notin ExitCodes \cup {0, SignalStatus}
        /\ sock_file
        /\ wait_result # NoStatus

\* C11 witness: the loop failed while the child was alive, the child then
\* exited with an exit code, and this process has exited.
C11_Witness ==
    /\ bpc = "err"
    /\ berr \in {"EPIPE_client", "EPIPE_child_stdin"}
    /\ mpc = "done"
    /\ wait_result.kind = "code"

\* the bridge does nothing once it has returned Ok: no byte is read from the
\* child or the client, none is written to the child's stdin, the client or
\* stdout, and what the buffers hold stays there
C16_Stopped ==
    bpc = "ok" =>
        /\ UNCHANGED <<bpc, ready, socket_client, child_stdin_buf, child_stdouterr_buf,
                       stdout_sink, stdin_pipe, stdout_pipe, stderr_pipe, srv_end>>
        /\ \A c \in Clients : Len(c2s'[c]) >= Len(c2s[c]) /\ Len(s2c'[c]) <= Len(s2c[c])

\* a step that leaves the for loop without having processed a descriptor is
\* the break at the notification descriptor: it ends the loop, and moves no
\* byte
C16_Break ==
    (bpc = "dispatch" /\ bpc' # bpc /\ ready' = ready) =>
        /\ FdNotify \in ready
        /\ bpc' = "ok"
        /\ UNCHANGED <<socket_client, child_stdin_buf, child_stdouterr_buf,
                       stdout_sink, stdin_pipe, stdout_pipe, stderr_pipe, c2s, s2c>>

\* C16: when the notification descriptor is met among the ready descriptors
\* the loop stops at once: the descriptors left in the batch are not
\* processed, the drains are skipped, and from then on the bridge reads and
\* writes nothing (what the buffers hold stays unflushed) and never leaves
\* the stopped state.
C16_ShutdownIsFinal == [][C16_Break /\ C16_Stopped]_vars

\* C16 witness: the loop has stopped with descriptors of the batch left
\* unprocessed and with unflushed child output in the outbound buffer.
C16_Witness ==
    /\ bpc = "ok"
    /\ ready \ {FdNotify} # {}
    /\ Unread(child_stdouterr_buf) # <<>>

\* C17: the notification is written at most once and only after
\* child.wait() has returned; main joins only after it has notified; the
\* socket file is removed, and this process exits, only after
\* socket_stream_bridge has returned.
C17_ShutdownOrder ==
    /\ notify_pipe <= 1
    /\ notify_pipe > 0 => (wait_result # NoStatus /\ child = "reaped")
    /\ mpc \in {"join", "remove", "exit"} => notify_pipe = 1
    /\ mpc \in {"remove", "exit", "done"} => Returned
    /\ (mpc \notin {"bind", "pipe"} /\ ~sock_file) => (Returned /\ mpc \in {"exit", "done"})

\* C17 witness: this process has exited through the final match, after the
\* bridge saw the notification and stopped.
C17_Witness ==
    /\ mpc = "done"
    /\ ~sock_file
    /\ bpc = "ok"
    /\ notify_pipe = 1

\* C19: the handler sends SIGTERM only to the live child: it never runs
\* with CHILD_PID = 0 (the caller's process group), and never signals the
\* stored pid once child.wait() has reaped the child.
C19_OnlyLiveChild ==
    /\ handlers => CHILD_PID = ChildId
    /\ "group" \notin sigterm_log
    /\ "reaped" \notin sigterm_log

(***************************************************************************)
(* Claims about a failed wait, checked under SpecWait.                     *)
(***************************************************************************)
\* the final match after a failed child.wait() exits with a status that is
\* neither die's nor the "died by signal" fallback
C12_FinalMatch ==
    (mpc = "exit" /\ mpc' = "done" /\ wait_result.kind = "failed") =>
        (exit_status' # DieStatus /\ exit_status' # SignalStatus)

\* C12: the exit status tells a failed wait for the child from a death in
\* die, and both from the "died by signal" fallback.
C12_StatusTellsCause == [][C12_FinalMatch]_vars

(***************************************************************************)
(* Claims about blocking, checked under SpecStall and SpecWindow.          *)
(***************************************************************************)
\* C14: the bridge thread blocks indefinitely only in the readiness wait:
\* whatever the child and the peers do or fail to do, a fairly scheduled
\* bridge is again and again in the readiness wait, or has returned.
C14_OnlyTheWaitBlocks == []<>(bpc \in {"wait", "ok", "err"})

\* C15: while the loop runs, our end of an adopted client's connection is
\* closed (the active-client reference cleared) only when that client has
\* closed its end.
C15_DetachOnlyOnDisconnect ==
    \A c \in Clients :
        (srv_end[c] = "closed" /\ c \notin rejected /\ ~Returned) =>
            cli_end[c] = "closed"

=============================================================================
